---- MODULE Spec2Model ----
(***************************************************************************)
(* A model of the chat-relay backend (backend/main.py): the /chat endpoint *)
(* (validation, history fetch, user-message insert), the payload assembly  *)
(* and incremental JSON decode loop of stream_gemini_api, and the          *)
(* accumulate-and-persist generator response_generator.                    *)
(*                                                                         *)
(* Text is a sequence of one-character strings.  Bytes are one-character   *)
(* strings for ASCII and "xC3", "xA9" for the two bytes of the UTF-8       *)
(* encoding of the character written "U+E9"; "U+FFFD" is the replacement   *)
(* character.  Literal fragments of f-strings are kept as single tokens.   *)
(***************************************************************************)
EXTENDS Integers, Sequences, FiniteSets, TLC

VARIABLES
    store,       \* the messages table: a sequence of rows in created_at order
    \* every other variable is a function of the request in flight:
    req,         \* the inbound /chat request: authorization, chat_id, message, file
    up,          \* the upstream response: status, body (bytes), objs (what the body holds)
    pc,          \* position of the request in chat_endpoint / the generators
    http,        \* status of the HTTP response to the caller (0: none yet)
    user_content, \* chat_endpoint: user_content, as passed to stream_gemini_api
    image_payload, \* chat_endpoint: image_payload, as passed to stream_gemini_api
    history,     \* chat_endpoint: history = fetch_context(chat_id)
    payload,     \* stream_gemini_api: payload["contents"] as posted upstream
    pos,         \* bytes of the upstream body already delivered by iter_any()
    buffer,      \* stream_gemini_api: buffer
    full_reply,  \* response_generator: full_reply
    sent,        \* chunks yielded to the caller (the StreamingResponse body), in order
    yielded,     \* chunks yielded by the decode loop tagged with their kind, in order
    effects      \* the externally visible operations of the request, in order

vars == <<store, req, up, pc, http, user_content, image_payload, history, payload,
          pos, buffer, full_reply, sent, yielded, effects>>

(***************************************************************************)
(* Sequences and text                                                      *)
(***************************************************************************)
RECURSIVE Flatten(_)
Flatten(ss) == IF ss = <<>> THEN <<>> ELSE Head(ss) \o Flatten(Tail(ss))

Last(s) == s[Len(s)]

\* s[from..] as Python's s[from-1:] (1-based here)
Drop(s, n) == SubSeq(s, n + 1, Len(s))

Whitespace == {" ", "\n"}

\* str.lstrip(): the index of the first non-whitespace character at or after i
RECURSIVE SkipWs(_, _)
SkipWs(s, i) ==
    IF i <= Len(s) /\ s[i] \in Whitespace THEN SkipWs(s, i + 1) ELSE i

lstrip(s) == Drop(s, SkipWs(s, 1) - 1)

(***************************************************************************)
(* bytes.decode('utf-8', errors='replace') over the model's byte alphabet: *)
(* "xC3" is a two-byte lead, "xA9" a continuation byte.  A lead followed   *)
(* by a continuation is one character; a lead without its continuation     *)
(* (also at the end of the chunk) and a stray continuation each become one *)
(* U+FFFD.                                                                 *)
(***************************************************************************)
\* the continuation bytes that complete a two-byte character
continuations(bytes) ==
    {i \in 2..Len(bytes) : bytes[i] = "xA9" /\ bytes[i - 1] = "xC3"}

\* the character decoded at byte i (i is not a completing continuation byte)
decode_at(bytes, i) ==
    IF bytes[i] = "xC3"
    THEN IF i < Len(bytes) /\ bytes[i + 1] = "xA9" THEN "U+E9" ELSE "U+FFFD"
    ELSE IF bytes[i] = "xA9" THEN "U+FFFD"
    ELSE bytes[i]

\* the k-th character comes from the k-th byte that is not a completing continuation
decode(bytes) ==
    LET cs == continuations(bytes)
        src(k) == CHOOSE i \in k..(k + Cardinality(cs)) :
                      i \notin cs /\ i - Cardinality({j \in cs : j < i}) = k
    IN  [k \in 1..(Len(bytes) - Cardinality(cs)) |-> decode_at(bytes, src(k))]

(***************************************************************************)
(* JSON values: [t |-> "str", v |-> text], [t |-> "arr", v |-> items],     *)
(* [t |-> "obj", v |-> pairs] with pairs a sequence of <<key, value>>.     *)
(***************************************************************************)
Str(s) == [t |-> "str", v |-> s]
Arr(items) == [t |-> "arr", v |-> items]
Obj(pairs) == [t |-> "obj", v |-> pairs]

Fail == [ok |-> FALSE]
Parsed(val, end) == [ok |-> TRUE, val |-> val, end |-> end]

\* json.decoder.scanstring from the character after the opening quote:
\* the index of the closing quote, or 0 (unterminated, or a control character)
RECURSIVE scanstring(_, _)
scanstring(s, i) ==
    IF i > Len(s) THEN 0
    ELSE IF s[i] = "\"" THEN i
    ELSE IF s[i] = "\n" THEN 0
    ELSE scanstring(s, i + 1)

RECURSIVE scan_once(_, _)
RECURSIVE JSONObject(_, _, _)
RECURSIVE JSONArray(_, _, _)

\* json.scanner.py_make_scanner._scan_once at index i; `end` of a result is the
\* index of the first character after the value
scan_once(s, i) ==
    IF i > Len(s) THEN Fail
    ELSE IF s[i] = "\""
         THEN LET q == scanstring(s, i + 1)
              IN  IF q = 0 THEN Fail ELSE Parsed(Str(SubSeq(s, i + 1, q - 1)), q + 1)
    ELSE IF s[i] = "{"
         THEN LET j == SkipWs(s, i + 1)
              IN  IF j <= Len(s) /\ s[j] = "}" THEN Parsed(Obj(<<>>), j + 1)
                  ELSE JSONObject(s, j, <<>>)
    ELSE IF s[i] = "["
         THEN LET j == SkipWs(s, i + 1)
              IN  IF j <= Len(s) /\ s[j] = "]" THEN Parsed(Arr(<<>>), j + 1)
                  ELSE JSONArray(s, j, <<>>)
    ELSE Fail

\* json.decoder.JSONObject: the members from index i (a key's opening quote)
JSONObject(s, i, pairs) ==
    IF i > Len(s) \/ s[i] # "\"" THEN Fail
    ELSE LET q == scanstring(s, i + 1)
         IN  IF q = 0 THEN Fail
             ELSE LET c == SkipWs(s, q + 1)
                  IN  IF c > Len(s) \/ s[c] # ":" THEN Fail
                      ELSE LET r == scan_once(s, SkipWs(s, c + 1))
                           IN  IF ~r.ok THEN Fail
                               ELSE LET d == SkipWs(s, r.end)
                                        ps == Append(pairs, <<SubSeq(s, i + 1, q - 1), r.val>>)
                                    IN  IF d > Len(s) THEN Fail
                                        ELSE IF s[d] = "}" THEN Parsed(Obj(ps), d + 1)
                                        ELSE IF s[d] = ","
                                             THEN JSONObject(s, SkipWs(s, d + 1), ps)
                                        ELSE Fail

\* json.decoder.JSONArray: the elements from index i
JSONArray(s, i, items) ==
    LET r == scan_once(s, i)
    IN  IF ~r.ok THEN Fail
        ELSE LET d == SkipWs(s, r.end)
                 xs == Append(items, r.val)
             IN  IF d > Len(s) THEN Fail
                 ELSE IF s[d] = "]" THEN Parsed(Arr(xs), d + 1)
                 ELSE IF s[d] = "," THEN JSONArray(s, SkipWs(s, d + 1), xs)
                 ELSE Fail

\* decoder.raw_decode(buffer): ok = FALSE is json.JSONDecodeError; idx counts the
\* characters consumed
raw_decode(s) ==
    LET r == scan_once(s, 1)
    IN  IF r.ok THEN [ok |-> TRUE, obj |-> r.val, idx |-> r.end - 1] ELSE Fail

(***************************************************************************)
(* Python's operations on decoded JSON values, as the decode loop uses     *)
(* them.  None is the default of dict.get.  A result is [ok |-> TRUE,      *)
(* val |-> v] or [ok |-> FALSE, msg |-> the exception's message].          *)
(***************************************************************************)
None == [t |-> "none", v |-> <<>>]

Ok(v) == [ok |-> TRUE, val |-> v]
Raise(m) == [ok |-> FALSE, msg |-> m]

k_error == <<"e", "r", "r", "o", "r">>
k_message == <<"m", "e", "s", "s", "a", "g", "e">>
k_candidates == <<"c", "a", "n", "d", "i", "d", "a", "t", "e", "s">>
k_content == <<"c", "o", "n", "t", "e", "n", "t">>
k_parts == <<"p", "a", "r", "t", "s">>
k_text == <<"t", "e", "x", "t">>
k_promptFeedback == <<"p", "r", "o", "m", "p", "t", "F", "e", "e", "d", "b", "a", "c", "k">>
k_blockReason == <<"b", "l", "o", "c", "k", "R", "e", "a", "s", "o", "n">>

\* bool(v): an empty dict, list or string and None are false
Truthy(v) == v.v # <<>>

\* key in v: a key of a dict, an element of a list, a substring of a string
Contains(v, key) ==
    IF v.t = "obj" THEN \E i \in 1..Len(v.v) : v.v[i][1] = key
    ELSE IF v.t = "arr" THEN \E i \in 1..Len(v.v) : v.v[i] = Str(key)
    ELSE IF v.t = "str"
         THEN \E i \in 0..(Len(v.v) - Len(key)) : SubSeq(v.v, i + 1, i + Len(key)) = key
    ELSE FALSE

\* the value of the last pair with this key (a repeated key keeps the last value)
Lookup(d, key) ==
    LET hits == {i \in 1..Len(d.v) : d.v[i][1] = key}
    IN  d.v[CHOOSE i \in hits : \A j \in hits : j <= i][2]

\* v.get(key, default)
Get(v, key, default) ==
    IF v.t = "obj" THEN Ok(IF Contains(v, key) THEN Lookup(v, key) ELSE default)
    ELSE IF v.t = "arr" THEN Raise("'list' object has no attribute 'get'")
    ELSE IF v.t = "str" THEN Raise("'str' object has no attribute 'get'")
    ELSE Raise("'NoneType' object has no attribute 'get'")

\* v[key] with a string key
Item(v, key) ==
    IF v.t = "obj" THEN Ok(Lookup(v, key))
    ELSE IF v.t = "arr" THEN Raise("list indices must be integers or slices, not str")
    ELSE Raise("string indices must be integers, not 'str'")

\* v[0]
First(v) ==
    IF v.t = "arr"
    THEN IF v.v = <<>> THEN Raise("list index out of range") ELSE Ok(v.v[1])
    ELSE IF v.t = "str"
    THEN IF v.v = <<>> THEN Raise("string index out of range") ELSE Ok(Str(<<v.v[1]>>))
    ELSE Raise("0")

\* f"{v}": a string's text; anything else by its repr, kept as one token
Format(v) == IF v.t = "str" THEN v.v ELSE <<"<repr>">>

(***************************************************************************)
(* The decode loop of stream_gemini_api                                    *)
(***************************************************************************)
GeminiError(m) == <<" [Gemini Error: ">> \o m \o <<"] ">>
LogicError(m) == <<" [Logic Error: ", m, "] ">>
HttpError(status, text) == <<"Error: ", status, " - ">> \o text

\* what one pass of the loop body yields: kind "none" yields nothing
Event(kind, chunk) == [kind |-> kind, chunk |-> chunk]
NoOutput == Event("none", <<>>)

\* the first part's text, when content is truthy and has 'parts' (lines 209-211)
text_chunk(content) ==
    LET parts == Item(content, k_parts)
    IN  IF ~parts.ok THEN parts
        ELSE LET part == First(parts.val)
             IN  IF ~part.ok THEN part
                 ELSE LET text == Get(part.val, k_text, Str(<<>>))
                      IN  IF ~text.ok THEN text
                          ELSE IF Truthy(text.val)
                               THEN Ok(Event("text", Format(text.val)))
                               ELSE Ok(NoOutput)

\* interpret with the candidates looked at before the error field
interpret_CandidatesFirst(obj) ==
    LET candidates == Get(obj, k_candidates, Arr(<<>>))
    IN  IF candidates.ok /\ Truthy(candidates.val)
        THEN LET first == First(candidates.val)
             IN  IF ~first.ok THEN first
                 ELSE LET content == Get(first.val, k_content, None)
                      IN  IF ~content.ok THEN content
                          ELSE IF Truthy(content.val) /\ Contains(content.val, k_parts)
                               THEN text_chunk(content.val)
                               ELSE Ok(NoOutput)
        ELSE IF Contains(obj, k_error)
        THEN LET error == Item(obj, k_error)
             IN  IF ~error.ok THEN error
                 ELSE LET message == Get(error.val, k_message, Str(<<"Unknown">>))
                      IN  IF ~message.ok THEN message
                          ELSE Ok(Event("gemini_error", GeminiError(Format(message.val))))
        ELSE Ok(NoOutput)

\* the body of the try block after raw_decode (lines 201-211): Ok(event) or the
\* exception it raises
interpret(obj) ==
    IF Contains(obj, k_error)
    THEN LET error == Item(obj, k_error)
         IN  IF ~error.ok THEN error
             ELSE LET message == Get(error.val, k_message, Str(<<"Unknown">>))
                  IN  IF ~message.ok THEN message
                      ELSE Ok(Event("gemini_error", GeminiError(Format(message.val))))
    ELSE LET candidates == Get(obj, k_candidates, Arr(<<>>))
         IN  IF ~candidates.ok THEN candidates
             ELSE IF ~Truthy(candidates.val) THEN Ok(NoOutput)
             ELSE LET first == First(candidates.val)
                  IN  IF ~first.ok THEN first
                      ELSE LET content == Get(first.val, k_content, None)
                           IN  IF ~content.ok THEN content
                               ELSE IF Truthy(content.val) /\ Contains(content.val, k_parts)
                                    THEN text_chunk(content.val)
                                    ELSE Ok(NoOutput)

Punctuation == {"[", ",", "]"}

\* loop_pass that goes round on wrapper punctuation without removing it
loop_pass_KeepPunctuation(buf) ==
    LET b == lstrip(buf)
    IN  IF b = <<>> THEN [buffer |-> b, ev |-> Event("none", <<>>), next |-> "break"]
        ELSE IF b[1] \in Punctuation
             THEN [buffer |-> b, ev |-> Event("none", <<>>), next |-> "continue"]
        ELSE LET r == raw_decode(b)
             IN  IF ~r.ok THEN [buffer |-> b, ev |-> Event("none", <<>>), next |-> "break"]
                 ELSE LET e == interpret(r.obj)
                      IN  IF e.ok
                          THEN [buffer |-> Drop(b, r.idx), ev |-> e.val, next |-> "continue"]
                          ELSE [buffer |-> Drop(b, r.idx),
                                ev |-> Event("logic_error", LogicError(e.msg)),
                                next |-> "break"]

\* one pass of `while True` (lines 189-217) over the buffer: the buffer it leaves,
\* what it yields, and whether the loop goes round ("continue") or ends ("break")
Pass(buf, ev, next) == [buffer |-> buf, ev |-> ev, next |-> next]

loop_pass(buf) ==
    LET b == lstrip(buf)
    IN  IF b = <<>> THEN Pass(b, NoOutput, "break")
        ELSE IF b[1] \in Punctuation THEN Pass(Tail(b), NoOutput, "continue")
        ELSE LET r == raw_decode(b)
             IN  IF ~r.ok THEN Pass(b, NoOutput, "break")
                 ELSE LET e == interpret(r.obj)
                      IN  IF e.ok THEN Pass(Drop(b, r.idx), e.val, "continue")
                          ELSE Pass(Drop(b, r.idx),
                                    Event("logic_error", LogicError(e.msg)), "break")

(***************************************************************************)
(* The upstream wire format: json.dumps of a value, and UTF-8 encoding.    *)
(***************************************************************************)
RECURSIVE dumps(_)
RECURSIVE dumps_items(_, _)
RECURSIVE dumps_pairs(_, _)
dumps(v) ==
    IF v.t = "str" THEN <<"\"">> \o v.v \o <<"\"">>
    ELSE IF v.t = "arr" THEN <<"[">> \o dumps_items(v.v, 1) \o <<"]">>
    ELSE <<"{">> \o dumps_pairs(v.v, 1) \o <<"}">>

dumps_items(items, i) ==
    IF i > Len(items) THEN <<>>
    ELSE (IF i > 1 THEN <<",">> ELSE <<>>) \o dumps(items[i]) \o dumps_items(items, i + 1)

dumps_pairs(pairs, i) ==
    IF i > Len(pairs) THEN <<>>
    ELSE (IF i > 1 THEN <<",">> ELSE <<>>)
         \o <<"\"">> \o pairs[i][1] \o <<"\"", ":">> \o dumps(pairs[i][2])
         \o dumps_pairs(pairs, i + 1)

\* str.encode('utf-8'): "U+E9" becomes the two bytes "xC3", "xA9"
encode(text) ==
    LET wide == {i \in 1..Len(text) : text[i] = "U+E9"}
        start(i) == i + Cardinality({j \in wide : j < i})
        src(k) == CHOOSE i \in 1..Len(text) :
                      start(i) <= k /\ k <= start(i) + (IF i \in wide THEN 1 ELSE 0)
    IN  [k \in 1..(Len(text) + Cardinality(wide)) |->
            LET i == src(k)
            IN  IF i \notin wide THEN text[i]
                ELSE IF k = start(i) THEN "xC3" ELSE "xA9"]

(***************************************************************************)
(* The message store and the payload                                       *)
(***************************************************************************)
Row(chat_id, sender, content, file_path) ==
    [chat_id |-> chat_id, sender |-> sender, content |-> content, file_path |-> file_path]

Reverse(s) == [i \in 1..Len(s) |-> s[Len(s) + 1 - i]]

Min(a, b) == IF a <= b THEN a ELSE b

\* the rows of `rows` with this chat_id, in order (.eq('chat_id', chat_id))
eq_chat_id(rows, chat_id) ==
    LET hits == {i \in 1..Len(rows) : rows[i].chat_id = chat_id}
        nth(k) == CHOOSE i \in hits : Cardinality({j \in hits : j <= i}) = k
    IN  [k \in 1..Cardinality(hits) |-> rows[nth(k)]]

\* fetch_context's default limit
limit == 15

\* fetch_context without the final reversal
fetch_context_NewestFirst(rows, chat_id) ==
    LET desc == Reverse(eq_chat_id(rows, chat_id))
    IN  SubSeq(desc, 1, Min(limit, Len(desc)))

\* fetch_context(chat_id): newest first, cut to the limit, then reversed
fetch_context(rows, chat_id) ==
    LET desc == Reverse(eq_chat_id(rows, chat_id))
        data == SubSeq(desc, 1, Min(limit, Len(desc)))
    IN  Reverse(data)

SYSTEM_INSTRUCTION == <<"<SYSTEM_INSTRUCTION>">>

TextPart(text) == [k |-> "text", v |-> text]
InlineData(image_data) == [k |-> "inline_data", v |-> image_data]
Turn(role, parts) == [role |-> role, parts |-> parts]

\* lines 143-149: one turn per history message that has content
history_contents(hist) ==
    LET kept == {i \in 1..Len(hist) : hist[i].content # <<>>}
        nth(k) == CHOOSE i \in kept : Cardinality({j \in kept : j <= i}) = k
    IN  [k \in 1..Cardinality(kept) |->
            Turn(IF hist[nth(k)].sender = "user" THEN "user" ELSE "model",
                 <<TextPart(hist[nth(k)].content)>>)]

\* lines 152-170: the current turn
current_turn(user_message, image_data) ==
    LET final_message == IF user_message # <<>>
                         THEN SYSTEM_INSTRUCTION \o <<"\n", "\n">> \o user_message
                         ELSE SYSTEM_INSTRUCTION
    IN  Turn("user", <<TextPart(final_message)>>
                     \o (IF image_data # <<>> THEN <<InlineData(image_data)>> ELSE <<>>))

\* payload["contents"] (lines 140-172)
contents(hist, user_message, image_data) ==
    Append(history_contents(hist), current_turn(user_message, image_data))

(***************************************************************************)
(* chat_endpoint                                                           *)
(***************************************************************************)
Reqs == DOMAIN pc

Effect(op, arg) == [op |-> op, arg |-> arg]

Bearer == <<"B", "e", "a", "r", "e", "r", " ">>

startswith(s, prefix) == Len(s) >= Len(prefix) /\ SubSeq(s, 1, Len(prefix)) = prefix

\* s.split(" ")[1] of a string that holds a space
split_1(s) ==
    LET spaces == {i \in 1..Len(s) : s[i] = " "}
        first == CHOOSE i \in spaces : \A j \in spaces : i <= j
        later == {i \in spaces : i > first}
        second == IF later = {} THEN Len(s) + 1
                  ELSE CHOOSE i \in later : \A j \in later : i <= j
    IN  SubSeq(s, first + 1, second - 1)

\* the tokens the identity provider accepts (supabase.auth.get_user)
ValidTokens == {<<"t", "1">>}

NoFile == [present |-> FALSE, filename |-> <<>>, image |-> FALSE, text |-> <<>>,
           stored |-> FALSE]

\* Proceed that saves the user message before it fetches the context
Proceed_InsertFirst(r, eff, content, file_path, image) ==
    LET chat_id == req[r].chat_id
        row == Row(chat_id, "user",
                   IF req[r].message # <<>> THEN req[r].message
                   ELSE <<"[Sent file: ">> \o req[r].file.filename \o <<"]">>,
                   file_path)
    IN  /\ history' = [history EXCEPT ![r] = fetch_context(Append(store, row), chat_id)]
        /\ store' = Append(store, row)
        /\ effects' = [effects EXCEPT ![r] =
                          eff \o <<Effect("insert", row), Effect("select", chat_id)>>]
        /\ user_content' = [user_content EXCEPT ![r] = content]
        /\ image_payload' = [image_payload EXCEPT ![r] = image]
        /\ http' = [http EXCEPT ![r] = 200]
        /\ pc' = [pc EXCEPT ![r] = "streaming"]

\* lines 314-341: fetch the context, save the user message, return the response
Proceed(r, eff, content, file_path, image) ==
    LET chat_id == req[r].chat_id
        row == Row(chat_id, "user",
                   IF req[r].message # <<>> THEN req[r].message
                   ELSE <<"[Sent file: ">> \o req[r].file.filename \o <<"]">>,
                   file_path)
    IN  /\ history' = [history EXCEPT ![r] = fetch_context(store, chat_id)]
        /\ store' = Append(store, row)
        /\ effects' = [effects EXCEPT ![r] =
                          eff \o <<Effect("select", chat_id), Effect("insert", row)>>]
        /\ user_content' = [user_content EXCEPT ![r] = content]
        /\ image_payload' = [image_payload EXCEPT ![r] = image]
        /\ http' = [http EXCEPT ![r] = 200]
        /\ pc' = [pc EXCEPT ![r] = "streaming"]

Reject(r, eff, status) ==
    /\ http' = [http EXCEPT ![r] = status]
    /\ pc' = [pc EXCEPT ![r] = "rejected"]
    /\ effects' = [effects EXCEPT ![r] = eff]
    /\ UNCHANGED <<store, history, user_content, image_payload>>

\* Enter with the message-or-file check ahead of the authorization checks
Enter_MessageFirst(r) ==
    /\ pc[r] = "start"
    /\ LET authorization == req[r].authorization
           token == split_1(authorization)
           eff == Append(effects[r], Effect("get_user", token))
       IN  IF req[r].message = <<>> /\ ~req[r].file.present
           THEN Reject(r, effects[r], 400)
           ELSE IF authorization = <<>> \/ ~startswith(authorization, Bearer)
           THEN Reject(r, effects[r], 401)
           ELSE IF token \notin ValidTokens THEN Reject(r, eff, 401)
           ELSE IF req[r].file.present
                THEN /\ pc' = [pc EXCEPT ![r] = "file_read"]
                     /\ effects' = [effects EXCEPT ![r] = eff]
                     /\ UNCHANGED <<store, history, user_content, image_payload, http>>
                ELSE Proceed(r, eff, req[r].message, <<>>, <<>>)
    /\ UNCHANGED <<req, up, payload, pos, buffer, full_reply, sent, yielded>>

\* lines 257-275 (to `await file.read()`), and with no file to the end of the handler
Enter(r) ==
    /\ pc[r] = "start"
    /\ LET authorization == req[r].authorization
           token == split_1(authorization)
           eff == Append(effects[r], Effect("get_user", token))
       IN  IF authorization = <<>> \/ ~startswith(authorization, Bearer)
           THEN Reject(r, effects[r], 401)
           ELSE IF token \notin ValidTokens THEN Reject(r, eff, 401)
           ELSE IF req[r].message = <<>> /\ ~req[r].file.present THEN Reject(r, eff, 400)
           ELSE IF req[r].file.present
                THEN /\ pc' = [pc EXCEPT ![r] = "file_read"]
                     /\ effects' = [effects EXCEPT ![r] = eff]
                     /\ UNCHANGED <<store, history, user_content, image_payload, http>>
                ELSE Proceed(r, eff, req[r].message, <<>>, <<>>)
    /\ UNCHANGED <<req, up, payload, pos, buffer, full_reply, sent, yielded>>

\* lines 276-312: the file's text or image goes into the prompt and the file is stored;
\* a failed upload is caught and leaves file_path None
file_content(file, message) ==
    IF file.image
    THEN message \o <<"\n[Attached Image: ">> \o file.filename \o <<"]">>
    ELSE IF file.text # <<>>
    THEN message \o <<"\n\n[Attached File Content (">> \o file.filename \o <<")]:\n">>
                 \o file.text
    ELSE message \o <<"\n\n[System: The user attached a file '">> \o file.filename
                 \o <<"' but no text could be extracted. It might be an image-only PDF or empty.]">>

\* lines 276-341, after `await file.read()`
AfterFileRead(r) ==
    /\ pc[r] = "file_read"
    /\ LET file == req[r].file
           file_path == <<req[r].chat_id, "/">> \o file.filename
           text == file_content(file, req[r].message)
           image == IF file.image THEN <<"image/*", "<base64>">> ELSE <<>>
       IN  IF file.stored
           THEN Proceed(r, Append(effects[r], Effect("upload", file_path)),
                        text, file_path, image)
           ELSE Proceed(r, effects[r],
                        text \o <<"\n[Error parsing attached file]">>, <<>>, image)
    /\ UNCHANGED <<req, up, payload, pos, buffer, full_reply, sent, yielded>>

(***************************************************************************)
(* response_generator and stream_gemini_api: one action from each          *)
(* suspension point (an await, a yield) to the next; the decode loop is    *)
(* taken one pass at a time.                                               *)
(***************************************************************************)
\* Forward that adds text deltas only to full_reply
Forward_DeltasOnly(r, ev) ==
    /\ full_reply' = [full_reply EXCEPT ![r] =
                         IF ev.kind = "text" THEN @ \o ev.chunk ELSE @]
    /\ sent' = [sent EXCEPT ![r] = Append(@, ev.chunk)]
    /\ yielded' = [yielded EXCEPT ![r] = Append(@, ev)]
    /\ effects' = [effects EXCEPT ![r] = Append(@, Effect("yield", ev.chunk))]

\* lines 329-331: response_generator takes a chunk of stream_gemini_api, adds it to
\* full_reply and yields it to the caller
Forward(r, ev) ==
    /\ full_reply' = [full_reply EXCEPT ![r] = @ \o ev.chunk]
    /\ sent' = [sent EXCEPT ![r] = Append(@, ev.chunk)]
    /\ yielded' = [yielded EXCEPT ![r] = Append(@, ev)]
    /\ effects' = [effects EXCEPT ![r] = Append(@, Effect("yield", ev.chunk))]

\* Finish that writes the reply over the newest row of the table
Finish_Overwrite(r) ==
    LET row == Row(req[r].chat_id, "ai", full_reply[r], <<>>)
    IN  /\ pc' = [pc EXCEPT ![r] = "done"]
        /\ IF full_reply[r] # <<>>
           THEN /\ store' = [store EXCEPT ![Len(store)] = row]
                /\ effects' = [effects EXCEPT ![r] =
                                  @ \o <<Effect("end", <<>>), Effect("insert", row)>>]
           ELSE /\ store' = store
                /\ effects' = [effects EXCEPT ![r] = Append(@, Effect("end", <<>>))]

\* lines 333-339: stream_gemini_api has returned; save the reply if there is one
Finish(r) ==
    LET row == Row(req[r].chat_id, "ai", full_reply[r], <<>>)
    IN  /\ pc' = [pc EXCEPT ![r] = "done"]
        /\ IF full_reply[r] # <<>>
           THEN /\ store' = Append(store, row)
                /\ effects' = [effects EXCEPT ![r] =
                                  @ \o <<Effect("end", <<>>), Effect("insert", row)>>]
           ELSE /\ store' = store
                /\ effects' = [effects EXCEPT ![r] = Append(@, Effect("end", <<>>))]

\* lines 326-329 and 138-176: the response body starts; the payload is built and posted
StartGenerator(r) ==
    /\ pc[r] = "streaming"
    /\ full_reply' = [full_reply EXCEPT ![r] = <<>>]
    /\ payload' = [payload EXCEPT ![r] =
                      contents(history[r], user_content[r], image_payload[r])]
    /\ effects' = [effects EXCEPT ![r] = Append(@, Effect("post", <<>>))]
    /\ pc' = [pc EXCEPT ![r] = "post"]
    /\ UNCHANGED <<store, req, up, http, user_content, image_payload, history, pos,
                   buffer, sent, yielded>>

\* lines 176-183: the upstream answers 200
PostOk(r) ==
    /\ pc[r] = "post"
    /\ up[r].status = "200"
    /\ buffer' = [buffer EXCEPT ![r] = <<>>]
    /\ pc' = [pc EXCEPT ![r] = "read"]
    /\ UNCHANGED <<store, req, up, http, user_content, image_payload, history, payload,
                   pos, full_reply, sent, yielded, effects>>

\* PostStatus that hands the body of the answer to the decode loop
PostStatus_ParseBody(r) ==
    /\ pc[r] = "post"
    /\ up[r].status # "200"
    /\ buffer' = [buffer EXCEPT ![r] = <<>>]
    /\ pc' = [pc EXCEPT ![r] = "read"]
    /\ UNCHANGED <<store, req, up, http, user_content, image_payload, history, payload,
                   pos, full_reply, sent, yielded, effects>>

\* lines 176-178: the upstream answers another status; its body is awaited
PostStatus(r) ==
    /\ pc[r] = "post"
    /\ up[r].status # "200"
    /\ pc' = [pc EXCEPT ![r] = "error_text"]
    /\ UNCHANGED <<store, req, up, http, user_content, image_payload, history, payload,
                   pos, buffer, full_reply, sent, yielded, effects>>

\* lines 178-179: text = await response.text(); yield the error line
ErrorText(r) ==
    /\ pc[r] = "error_text"
    /\ Forward(r, Event("http_error", HttpError(up[r].status, decode(up[r].body))))
    /\ pos' = [pos EXCEPT ![r] = Len(up[r].body)]
    /\ pc' = [pc EXCEPT ![r] = "yield:return"]
    /\ UNCHANGED <<store, req, up, http, user_content, image_payload, history, payload,
                   buffer>>

\* ReadChunk with one buffer for all requests in flight
ReadChunk_SharedBuffer(r, k) ==
    /\ pc[r] = "read"
    /\ k \in 1..(Len(up[r].body) - pos[r])
    /\ LET chunk == SubSeq(up[r].body, pos[r] + 1, pos[r] + k)
       IN  buffer' = [q \in Reqs |-> buffer[q] \o decode(chunk)]
    /\ pos' = [pos EXCEPT ![r] = @ + k]
    /\ pc' = [pc EXCEPT ![r] = "loop"]
    /\ UNCHANGED <<store, req, up, http, user_content, image_payload, history, payload,
                   full_reply, sent, yielded, effects>>

\* lines 185-187: iter_any() hands over the next k bytes
ReadChunk(r, k) ==
    /\ pc[r] = "read"
    /\ k \in 1..(Len(up[r].body) - pos[r])
    /\ LET chunk == SubSeq(up[r].body, pos[r] + 1, pos[r] + k)
       IN  buffer' = [buffer EXCEPT ![r] = @ \o decode(chunk)]
    /\ pos' = [pos EXCEPT ![r] = @ + k]
    /\ pc' = [pc EXCEPT ![r] = "loop"]
    /\ UNCHANGED <<store, req, up, http, user_content, image_payload, history, payload,
                   full_reply, sent, yielded, effects>>

\* line 185 and lines 333-339: the upstream body has ended
ReadEnd(r) ==
    /\ pc[r] = "read"
    /\ pos[r] = Len(up[r].body)
    /\ Finish(r)
    /\ UNCHANGED <<req, up, http, user_content, image_payload, history, payload, pos,
                   buffer, full_reply, sent, yielded>>

\* LoopStep that saves the reply so far at every chunk it forwards
LoopStep_SaveEachChunk(r) ==
    /\ pc[r] = "loop"
    /\ LET p == loop_pass(buffer[r])
           next == IF p.next = "continue" THEN "loop" ELSE "read"
           row == Row(req[r].chat_id, "ai", full_reply[r] \o p.ev.chunk, <<>>)
       IN  /\ buffer' = [buffer EXCEPT ![r] = p.buffer]
           /\ IF p.ev.kind = "none"
              THEN /\ pc' = [pc EXCEPT ![r] = next]
                   /\ UNCHANGED <<store, full_reply, sent, yielded, effects>>
              ELSE /\ pc' = [pc EXCEPT ![r] = IF next = "loop" THEN "yield:loop"
                                              ELSE "yield:read"]
                   /\ full_reply' = [full_reply EXCEPT ![r] = @ \o p.ev.chunk]
                   /\ sent' = [sent EXCEPT ![r] = Append(@, p.ev.chunk)]
                   /\ yielded' = [yielded EXCEPT ![r] = Append(@, p.ev)]
                   /\ store' = Append(store, row)
                   /\ effects' = [effects EXCEPT ![r] =
                                     @ \o <<Effect("yield", p.ev.chunk),
                                            Effect("insert", row)>>]
    /\ UNCHANGED <<req, up, http, user_content, image_payload, history, payload, pos>>

\* lines 189-217: one pass of the loop; a yield suspends the generator
LoopStep(r) ==
    /\ pc[r] = "loop"
    /\ LET p == loop_pass(buffer[r])
           next == IF p.next = "continue" THEN "loop" ELSE "read"
       IN  /\ buffer' = [buffer EXCEPT ![r] = p.buffer]
           /\ IF p.ev.kind = "none"
              THEN /\ pc' = [pc EXCEPT ![r] = next]
                   /\ UNCHANGED <<full_reply, sent, yielded, effects>>
              ELSE /\ pc' = [pc EXCEPT ![r] = IF next = "loop" THEN "yield:loop"
                                              ELSE "yield:read"]
                   /\ Forward(r, p.ev)
    /\ UNCHANGED <<store, req, up, http, user_content, image_payload, history, payload,
                   pos>>

\* the caller takes the next chunk: the generator goes on after its yield
Resume(r) ==
    /\ pc[r] \in {"yield:loop", "yield:read", "yield:return"}
    /\ IF pc[r] = "yield:return"
       THEN Finish(r)
       ELSE /\ pc' = [pc EXCEPT ![r] = IF pc[r] = "yield:loop" THEN "loop" ELSE "read"]
            /\ UNCHANGED <<store, effects>>
    /\ UNCHANGED <<req, up, http, user_content, image_payload, history, payload, pos,
                   buffer, full_reply, sent, yielded>>

\* lines 175-185: the post, the read of an error body or the read of a chunk times
\* out or loses the connection; nothing catches the exception
TransportFailure(r) ==
    /\ pc[r] \in {"post", "error_text", "read"}
    /\ pc' = [pc EXCEPT ![r] = "raised"]
    /\ effects' = [effects EXCEPT ![r] = Append(@, Effect("raise", <<>>))]
    /\ UNCHANGED <<store, req, up, http, user_content, image_payload, history, payload,
                   pos, buffer, full_reply, sent, yielded>>

\* the places where the generators are suspended: before the first chunk is asked
\* for, at an await of stream_gemini_api, at a yield
Suspended == {"streaming", "post", "error_text", "read",
              "yield:loop", "yield:read", "yield:return"}

\* Cancel with a finally clause that saves what was accumulated
Cancel_SavePartial(r) ==
    LET row == Row(req[r].chat_id, "ai", full_reply[r], <<>>)
    IN  /\ pc[r] \in Suspended
        /\ pc' = [pc EXCEPT ![r] = "cancelled"]
        /\ IF full_reply[r] # <<>>
           THEN /\ store' = Append(store, row)
                /\ effects' = [effects EXCEPT ![r] =
                                  @ \o <<Effect("close", <<>>), Effect("insert", row)>>]
           ELSE /\ store' = store
                /\ effects' = [effects EXCEPT ![r] = Append(@, Effect("close", <<>>))]
        /\ UNCHANGED <<req, up, http, user_content, image_payload, history, payload,
                       pos, buffer, full_reply, sent, yielded>>

\* lines 326-331: the caller has gone and the response generator is closed where it
\* is suspended; the statements after its loop (lines 333-339) are not reached
Cancel(r) ==
    /\ pc[r] \in Suspended
    /\ pc' = [pc EXCEPT ![r] = "cancelled"]
    /\ effects' = [effects EXCEPT ![r] = Append(@, Effect("close", <<>>))]
    /\ UNCHANGED <<store, req, up, http, user_content, image_payload, history, payload,
                   pos, buffer, full_reply, sent, yielded>>

(***************************************************************************)
(* Inputs: response objects of the upstream API and the bodies they make   *)
(***************************************************************************)
Part(text) == Obj(<< <<k_text, Str(text)>> >>)
Candidate(parts) == Obj(<< <<k_content, Obj(<< <<k_parts, Arr(parts)>> >>)>> >>)
Candidates(parts) == <<k_candidates, Arr(<<Candidate(parts)>>)>>
ErrorField(fields) == <<k_error, Obj(fields)>>
PromptFeedback == <<k_promptFeedback, Obj(<< <<k_blockReason, Str(<<"S">>)>> >>)>>

TextObj(text) == Obj(<<Candidates(<<Part(text)>>)>>)
PartsObj(texts) == Obj(<<Candidates([i \in 1..Len(texts) |-> Part(texts[i])])>>)
ErrorObj(m) == Obj(<<ErrorField(<< <<k_message, Str(m)>> >>)>>)
ErrorNoMessage == Obj(<<ErrorField(<<>>)>>)
ErrorWithCandidates(m, text) ==
    Obj(<<ErrorField(<< <<k_message, Str(m)>> >>), Candidates(<<Part(text)>>)>>)
SafetyObj == Obj(<< <<k_candidates, Arr(<<>>)>>, PromptFeedback>>)
FeedbackOnly == Obj(<<PromptFeedback>>)
NoCandidates == Obj(<< <<k_candidates, Arr(<<>>)>> >>)

\* the body of a 200 response: a JSON array of the objects, one per line
RECURSIVE elements(_, _)
elements(objs, i) ==
    IF i > Len(objs) THEN <<>>
    ELSE (IF i > 1 THEN <<",", "\n">> ELSE <<>>) \o dumps(objs[i]) \o elements(objs, i + 1)

Body(objs) == encode(<<"[">> \o elements(objs, 1) \o <<"]">>)

Upstream(status, body, objs) == [status |-> status, body |-> body, objs |-> objs]

\* the streams of at most n objects drawn from a set of objects
Streams(objects, n) == UNION {[1..m -> objects] : m \in 1..n}

MaxObjs == 2

(***************************************************************************)
(* Specifications                                                          *)
(***************************************************************************)
\* one request, about to enter chat_endpoint
InitRequest(rows, request, upstream) ==
    /\ store = rows
    /\ req = <<request>>
    /\ up = <<upstream>>
    /\ pc = <<"start">>
    /\ http = <<0>>
    /\ user_content = << <<>> >>
    /\ image_payload = << <<>> >>
    /\ history = << <<>> >>
    /\ payload = << <<>> >>
    /\ pos = <<0>>
    /\ buffer = << <<>> >>
    /\ full_reply = << <<>> >>
    /\ sent = << <<>> >>
    /\ yielded = << <<>> >>
    /\ effects = << <<>> >>

Request(authorization, chat_id, message, file) ==
    [authorization |-> authorization, chat_id |-> chat_id, message |-> message,
     file |-> file]

GoodAuth == Bearer \o <<"t", "1">>
PlainRequest == Request(GoodAuth, "c1", <<"h", "i">>, NoFile)

\* the actions of the request in flight
DoEnter == \E r \in Reqs : Enter(r)
DoAfterFileRead == \E r \in Reqs : AfterFileRead(r)
DoStartGenerator == \E r \in Reqs : StartGenerator(r)
DoPostOk == \E r \in Reqs : PostOk(r)
DoPostStatus == \E r \in Reqs : PostStatus(r)
DoErrorText == \E r \in Reqs : ErrorText(r)
DoReadChunk == \E r \in Reqs : \E k \in 1..Len(up[r].body) : ReadChunk(r, k)
DoLoopStep == \E r \in Reqs : LoopStep(r)
DoResume == \E r \in Reqs : Resume(r)
DoReadEnd == \E r \in Reqs : ReadEnd(r)
DoTransportFailure == \E r \in Reqs : TransportFailure(r)

\* a 200 response read to its end
NextStream ==
    \/ DoEnter
    \/ DoStartGenerator
    \/ DoPostOk
    \/ DoReadChunk
    \/ DoLoopStep
    \/ DoResume
    \/ DoReadEnd

\* SpecDecode: the decode loop over every chunking of a well-formed 200 body
DecodeObjects ==
    {TextObj(<<"a", "b">>), TextObj(<<"U+E9">>), PartsObj(<<<<"c">>, <<"d">>>>),
     SafetyObj, FeedbackOnly, NoCandidates}

InitDecode ==
    \E objs \in Streams(DecodeObjects, MaxObjs) :
        InitRequest(<<>>, PlainRequest, Upstream("200", Body(objs), objs))

SpecDecode == InitDecode /\ [][NextStream]_vars

\* SpecError: the same over bodies that hold error objects
ErrorObjects ==
    {ErrorWithCandidates(<<"q">>, <<"z">>), ErrorNoMessage, TextObj(<<"a", "b">>)}

InitError ==
    \E objs \in Streams(ErrorObjects, MaxObjs) :
        InitRequest(<<>>, PlainRequest, Upstream("200", Body(objs), objs))

SpecError == InitError /\ [][NextStream]_vars

\* SpecMalformed: a body whose first element can never parse, then well-formed objects
Fragments ==
    {<<"{", "\"", "a", "\"", "}">>, <<"{", "\"", "a", "\"", ":", "}">>, <<"}">>}

MalformedBody(before, fragment, after) ==
    encode(<<"[">> \o elements(before, 1) \o (IF before = <<>> THEN <<>> ELSE <<",", "\n">>)
           \o fragment \o <<",", "\n">> \o elements(after, 1) \o <<"]">>)

InitMalformed ==
    \E fragment \in Fragments :
        \E before \in {<<>>, <<TextObj(<<"c">>)>>} :
            \E after \in Streams({TextObj(<<"a", "b">>)}, MaxObjs) :
                InitRequest(<<>>, PlainRequest,
                            Upstream("200", MalformedBody(before, fragment, after),
                                     before \o after))

SpecMalformed == InitMalformed /\ [][NextStream]_vars

\* SpecChat: every kind of request against a short upstream answer, with transport
\* failures
NextChat ==
    \/ DoEnter
    \/ DoAfterFileRead
    \/ DoStartGenerator
    \/ DoPostOk
    \/ DoPostStatus
    \/ DoErrorText
    \/ DoReadChunk
    \/ DoLoopStep
    \/ DoResume
    \/ DoReadEnd
    \/ DoTransportFailure

BasicAuth == <<"B", "a", "s", "i", "c", " ", "t", "1">>
StaleAuth == Bearer \o <<"z">>

File(filename, image, text, stored) ==
    [present |-> TRUE, filename |-> filename, image |-> image, text |-> text,
     stored |-> stored]

ChatFiles ==
    {NoFile,
     File(<<"a.png">>, TRUE, <<>>, TRUE),
     File(<<"b.txt">>, FALSE, <<"t", "x">>, TRUE),
     File(<<"c.bin">>, FALSE, <<>>, FALSE)}

ChatRequests ==
    {Request(a, "c1", m, f) :
        a \in {<<>>, BasicAuth, StaleAuth, GoodAuth}, m \in {<<>>, <<"h", "i">>},
        f \in ChatFiles}

ChatUpstreams ==
    {Upstream("200", Body(<<o>>), <<o>>) :
        o \in {TextObj(<<"a", "b">>), ErrorObj(<<"q">>), SafetyObj}}
    \cup {Upstream("500", <<"n", "o">>, <<>>),
          Upstream("404", Body(<<TextObj(<<"a", "b">>)>>), <<>>)}

InitialRows ==
    <<Row("c1", "user", <<"o", "l", "d">>, <<>>), Row("c1", "ai", <<"y", "o">>, <<>>)>>

InitChat ==
    \E request \in ChatRequests :
        \E upstream \in ChatUpstreams : InitRequest(InitialRows, request, upstream)

SpecChat == InitChat /\ [][NextChat]_vars

\* SpecHistory: the payload built over message logs of every length around the limit
MaxRows == 17

\* a log of n rows, senders alternating; row e has no content and row o is of
\* another chat (0: no such row)
HistoryRows(n, e, o) ==
    [i \in 1..n |->
        Row(IF i = o THEN "c2" ELSE "c1",
            IF i % 2 = 1 THEN "user" ELSE "ai",
            IF i = e THEN <<>> ELSE <<"m", ToString(i)>>,
            <<>>)]

InitHistory ==
    \E n \in 0..MaxRows :
        \E e \in 0..n :
            \E o \in 0..n :
                InitRequest(HistoryRows(n, e, o), PlainRequest,
                            Upstream("500", <<"n", "o">>, <<>>))

NextHistory ==
    \/ DoEnter
    \/ DoStartGenerator

SpecHistory == InitHistory /\ [][NextHistory]_vars

(***************************************************************************)
(* What the claims speak of                                                *)
(***************************************************************************)
\* the chunks of the events of one kind, concatenated in order
RECURSIVE ChunksOf(_, _)
ChunksOf(evs, kind) ==
    IF evs = <<>> THEN <<>>
    ELSE (IF Head(evs).kind = kind THEN Head(evs).chunk ELSE <<>>)
         \o ChunksOf(Tail(evs), kind)

Deltas(evs) == ChunksOf(evs, "text")

\* the events of the decode loop run to its end over one buffer
RECURSIVE run_loop(_)
run_loop(buf) ==
    LET p == loop_pass(buf)
        out == IF p.ev.kind = "none" THEN <<>> ELSE <<p.ev>>
    IN  IF p.next = "break" THEN out ELSE out \o run_loop(p.buffer)

\* the events of a body delivered as one chunk
OneChunk(body) == run_loop(decode(body))

HasKey(obj, key) == \E i \in 1..Len(obj.v) : obj.v[i][1] = key
Field(obj, key) == obj.v[CHOOSE i \in 1..Len(obj.v) : obj.v[i][1] = key][2]

\* the parts of candidates[0].content of a response object
PartsOf(obj) ==
    IF HasKey(obj, k_candidates) /\ Field(obj, k_candidates).v # <<>>
    THEN Field(Field(Field(obj, k_candidates).v[1], k_content), k_parts).v
    ELSE <<>>

\* the text of all parts of every object of a stream, in stream order
RECURSIVE AllPartsText(_)
AllPartsText(objs) ==
    IF objs = <<>> THEN <<>>
    ELSE Flatten([i \in 1..Len(PartsOf(Head(objs))) |->
                     Field(PartsOf(Head(objs))[i], k_text).v])
         \o AllPartsText(Tail(objs))

Done(r) == pc[r] = "done"

\* C1: chunk-boundary independence: for every valid body and every way of cutting it
\* into chunks, the text deltas of the decode loop, concatenated, are those of the
\* body delivered as one chunk.
C1_ChunkIndependence ==
    \A r \in Reqs : Done(r) => Deltas(yielded[r]) = Deltas(OneChunk(up[r].body))

\* C2: the text deltas of a stream, concatenated, are the text of all parts of
\* candidates[0].content of every response object, in stream order.
C2_AllPartsEmitted ==
    \A r \in Reqs : Done(r) => Deltas(yielded[r]) = AllPartsText(up[r].objs)

SafetyMarker == <<" [Safety Block] ">>

IsSafety(obj) == PartsOf(obj) = <<>> /\ HasKey(obj, k_promptFeedback)

\* C5: each response object with no candidates that carries promptFeedback puts one
\* "[Safety Block]" marker in the caller's stream, and such an object without
\* promptFeedback puts nothing there.
C5_SafetyBlockVisible ==
    \A r \in Reqs :
        Done(r) =>
            Cardinality({j \in 1..Len(sent[r]) : sent[r][j] = SafetyMarker})
                = Cardinality({i \in 1..Len(up[r].objs) : IsSafety(up[r].objs[i])})

\* what one object of a stream is to yield: the error marker when it has an error
\* field, else the text of its first part
Expected(obj) ==
    IF HasKey(obj, k_error)
    THEN Event("gemini_error",
               <<" [Gemini Error: ">>
               \o (IF HasKey(Field(obj, k_error), k_message)
                   THEN Field(Field(obj, k_error), k_message).v ELSE <<"Unknown">>)
               \o <<"] ">>)
    ELSE Event("text", Field(PartsOf(obj)[1], k_text).v)

\* C6: every response object with an error field yields exactly one error marker
\* holding error.message (or "Unknown") and no text delta, also when it has candidates
\* with text; the objects after it are handled as usual.
C6_ErrorPriority ==
    \A r \in Reqs :
        Done(r) => yielded[r] = [i \in 1..Len(up[r].objs) |-> Expected(up[r].objs[i])]

\* C6 witness: a stream read in several chunks in which an error object with
\* candidates is followed by a text object, both handled
C6_Witness ==
    \E r \in Reqs :
        /\ Done(r)
        /\ Len(up[r].objs) = 2
        /\ HasKey(up[r].objs[1], k_error) /\ HasKey(up[r].objs[1], k_candidates)
        /\ Len(yielded[r]) = 2
        /\ yielded[r][1].kind = "gemini_error" /\ yielded[r][2].kind = "text"

\* C8: a malformed fragment at the head of the buffer yields one marker of its own and
\* does not stop the stream: the text of every well-formed object after it has been
\* emitted when the stream is done.
C8_MalformedSkipped ==
    \A r \in Reqs :
        Done(r) =>
            /\ Cardinality({j \in 1..Len(yielded[r]) : yielded[r][j].kind # "text"}) = 1
            /\ Deltas(yielded[r]) = AllPartsText(up[r].objs)

\* the places in the request's effects of its inserts of one sender, and of one op
Inserts(r, sender) ==
    {i \in 1..Len(effects[r]) :
        effects[r][i].op = "insert" /\ effects[r][i].arg.sender = sender}

Ops(r, op) == {i \in 1..Len(effects[r]) : effects[r][i].op = op}

\* C3: the AI Message saved for a request holds the request's text deltas only; a
\* stream with no text delta (only markers, or a non-200 answer) saves no AI Message,
\* and the user Message is saved exactly once.
C3_OnlyDeltasPersisted ==
    \A r \in Reqs :
        Done(r) =>
            /\ Cardinality(Inserts(r, "user")) = 1
            /\ \A i \in Inserts(r, "ai") :
                   effects[r][i].arg.content = Deltas(yielded[r])
            /\ Deltas(yielded[r]) = <<>> => Inserts(r, "ai") = {}

\* C4: a request saves at most one AI Message, saves it only after the upstream
\* stream has ended and the last chunk was forwarded, and has saved exactly one user
\* Message before it opened the upstream call.
C4_PersistOnceAfterEnd ==
    \A r \in Reqs :
        LET e == effects[r]
            ai == Inserts(r, "ai")
            user == Inserts(r, "user")
            inserted == [k \in 1..Cardinality(Ops(r, "insert")) |->
                            e[CHOOSE i \in Ops(r, "insert") :
                                  Cardinality({j \in Ops(r, "insert") : j <= i}) = k].arg]
        IN  /\ Cardinality(ai) <= 1
            /\ Cardinality(user) <= 1
            /\ Cardinality(Ops(r, "post")) <= 1
            /\ store = InitialRows \o inserted
            /\ \A p \in Ops(r, "post") : \E u \in user : u < p
            /\ \A i \in ai :
                   /\ i = Len(e)
                   /\ e[i - 1].op = "end"
                   /\ pos[r] = Len(up[r].body)
                   /\ pc[r] = "done"
                   /\ \E p \in Ops(r, "post") : p < i

\* C4 witness: a 200 stream has ended and its reply was saved after the chunk was sent
C4_Witness ==
    \E r \in Reqs :
        /\ Done(r)
        /\ up[r].status = "200"
        /\ Inserts(r, "ai") # {}
        /\ Ops(r, "yield") # {}

\* C7: a timeout or a lost connection of the upstream call never leaves the
\* streaming generator as an exception.
C7_NoPropagation == \A r \in Reqs : pc[r] # "raised"

Earlier(r) == SubSeq(store, 1, Len(store) - 1)
Mine(r) == {i \in 1..Len(Earlier(r)) : store[i].chat_id = req[r].chat_id}
Window(r) ==
    {i \in Mine(r) : Cardinality({j \in Mine(r) : j > i}) < 15 /\ store[i].content # <<>>}

\* C10: the payload holds as history the min(n, 15) most recent stored messages of the
\* chat that have content, oldest first, and then the current user turn as its last
\* element.
C10_HistoryWindow ==
    \A r \in Reqs :
        pc[r] = "post" =>
            /\ Len(payload[r]) = Cardinality(Window(r)) + 1
            /\ \A i \in Window(r) :
                   payload[r][Cardinality({j \in Window(r) : j <= i})]
                       = [role |-> IF store[i].sender = "user" THEN "user" ELSE "model",
                          parts |-> <<[k |-> "text", v |-> store[i].content]>>]
            /\ Last(payload[r])
                   = [role |-> "user",
                      parts |-> <<[k |-> "text",
                                   v |-> SYSTEM_INSTRUCTION \o <<"\n", "\n">>
                                         \o req[r].message]>>]

\* C10 witness: sixteen stored messages of the chat, all with content; the payload
\* has the fifteen newest and starts with the second
C10_Witness ==
    \E r \in Reqs :
        /\ pc[r] = "post"
        /\ Cardinality(Mine(r)) = 16
        /\ Len(payload[r]) = 16
        /\ payload[r][1].parts[1].v = <<"m", "2">>
        /\ payload[r][15].parts[1].v = <<"m", "16">>

(***************************************************************************)
(* Response objects whose first candidate carries no text, and SpecNoOp    *)
(***************************************************************************)
k_role == <<"r", "o", "l", "e">>

\* candidates[0] without content; content without parts; parts an empty list; a part
\* without text; a part with empty text
NoContent == Obj(<< <<k_candidates, Arr(<<Obj(<<>>)>>)>> >>)
NoParts ==
    Obj(<< <<k_candidates,
             Arr(<<Obj(<< <<k_content, Obj(<< <<k_role, Str(<<"m">>)>> >>)>> >>)>>)>> >>)
EmptyParts == Obj(<<Candidates(<<>>)>>)
NoText == Obj(<<Candidates(<<Obj(<<>>)>>)>>)
EmptyText == TextObj(<<>>)

NoOpObjects == {NoContent, NoParts, EmptyParts, NoText, EmptyText, TextObj(<<"a", "b">>)}

InitNoOp ==
    \E objs \in Streams(NoOpObjects, MaxObjs) :
        InitRequest(<<>>, PlainRequest, Upstream("200", Body(objs), objs))

\* SpecNoOp: the decode loop over every chunking of bodies that hold such objects
SpecNoOp == InitNoOp /\ [][NextStream]_vars

\* the buffer the decode loop leaves when run to its end over one buffer
RECURSIVE rest_loop(_)
rest_loop(buf) ==
    LET p == loop_pass(buf)
    IN  IF p.next = "break" THEN p.buffer ELSE rest_loop(p.buffer)

\* the bytes of the body received so far
Received(r) == SubSeq(up[r].body, 1, pos[r])

\* C11: whenever the loop has stopped and waits for the next chunk, the events so far
\* are those of the complete objects among the bytes received, each once, and the
\* buffer is what those bytes leave unconsumed: a partial object is kept whole and
\* yields nothing until its last byte has come, and wrapper punctuation yields nothing.
C11_PartialRetained ==
    \A r \in Reqs :
        pc[r] = "read" =>
            /\ yielded[r] = OneChunk(Received(r))
            /\ buffer[r] = rest_loop(decode(Received(r)))

\* v[key] when v is an object with this key, else None
Sub(v, key) == IF v.t = "obj" /\ HasKey(v, key) THEN Field(v, key) ELSE None

\* v[0] when v is a list with an element, else None
Elem0(v) == IF v.t = "arr" /\ v.v # <<>> THEN v.v[1] ELSE None

\* the text of the first part of the first candidate; empty when any step is missing
FirstPartText(obj) ==
    LET part == Elem0(Sub(Sub(Elem0(Sub(obj, k_candidates)), k_content), k_parts))
        text == Sub(part, k_text)
    IN  IF text.t = "str" THEN text.v ELSE <<>>

\* C12: an object without an error field whose first candidate has no non-empty text
\* in its first part puts nothing in the caller's stream, and the objects after it are
\* still extracted: the stream holds text deltas only, the first-part texts in order.
C12_NoOpInvisible ==
    \A r \in Reqs :
        Done(r) =>
            /\ \A j \in 1..Len(yielded[r]) : yielded[r][j].kind = "text"
            /\ Flatten(sent[r])
                   = Flatten([i \in 1..Len(up[r].objs) |-> FirstPartText(up[r].objs[i])])

\* C14: chunks reach the buffer in arrival order, the chunks sent to the caller are
\* the chunks added to the accumulator, in order, and no text delta that can be
\* extracted from the bytes received is left in the buffer when the next chunk is read
\* or the stream ends.
C14_OrderAndImmediacy ==
    \A r \in Reqs :
        /\ Flatten(sent[r]) = full_reply[r]
        /\ sent[r] = [j \in 1..Len(yielded[r]) |-> yielded[r][j].chunk]
        /\ pc[r] \in {"read", "done"} => Deltas(run_loop(buffer[r])) = <<>>

\* C13: when the upstream status is not 200 the decode buffer never receives a byte
\* and no text delta is yielded; the one chunk ever yielded is the error line with the
\* status and the body, and the stream that has ended has yielded exactly that chunk.
C13_Non200ShortCircuit ==
    \A r \in Reqs :
        up[r].status # "200" =>
            LET line == <<"Error: ", up[r].status, " - ">> \o up[r].body
            IN  /\ buffer[r] = <<>>
                /\ \A j \in 1..Len(yielded[r]) : yielded[r][j].kind # "text"
                /\ sent[r] \in {<<>>, <<line>>}
                /\ pc[r] \in {"yield:return", "done"} => sent[r] = <<line>>

\* C13 witness: a 404 answer whose body is a well-formed array with a text object has
\* ended after the one error line
C13_Witness ==
    \E r \in Reqs :
        /\ Done(r)
        /\ up[r].status = "404"
        /\ Len(up[r].body) > 2
        /\ Len(sent[r]) = 1

(***************************************************************************)
(* SpecCancel: a request whose caller may go away at any suspension point  *)
(***************************************************************************)
DoCancel == \E r \in Reqs : Cancel(r)

NextCancel ==
    \/ DoEnter
    \/ DoStartGenerator
    \/ DoPostOk
    \/ DoPostStatus
    \/ DoErrorText
    \/ DoReadChunk
    \/ DoLoopStep
    \/ DoResume
    \/ DoReadEnd
    \/ DoCancel

CancelUpstreams ==
    {Upstream("200", Body(objs), objs) :
        objs \in {<<TextObj(<<"a", "b">>)>>,
                  <<TextObj(<<"a", "b">>), TextObj(<<"c", "d">>)>>}}
    \cup {Upstream("500", <<"n", "o">>, <<>>)}

InitCancel ==
    \E upstream \in CancelUpstreams : InitRequest(InitialRows, PlainRequest, upstream)

SpecCancel == InitCancel /\ [][NextCancel]_vars

\* C16: a request whose response generator was closed before it ran to its end has
\* written no AI Message, whatever full_reply holds, and its user Message is the one
\* row it has added to the store.
C16_CancelNoPersist ==
    \A r \in Reqs :
        pc[r] = "cancelled" =>
            /\ Inserts(r, "ai") = {}
            /\ Len(store) = Len(InitialRows) + 1
            /\ SubSeq(store, 1, Len(InitialRows)) = InitialRows
            /\ Last(store) = [chat_id |-> req[r].chat_id, sender |-> "user",
                              content |-> req[r].message, file_path |-> <<>>]

\* C16 witness: the generator was closed with text in full_reply and upstream bytes
\* still to come
C16_Witness ==
    \E r \in Reqs :
        /\ pc[r] = "cancelled"
        /\ full_reply[r] # <<>>
        /\ pos[r] < Len(up[r].body)

\* C17: the AI Message a request has saved holds the chunks sent to the caller,
\* concatenated in order, markers and error lines included; and a request has saved
\* an AI Message exactly when its stream has run to its end and a non-empty chunk was
\* sent.
C17_ReplyIsWhatWasSent ==
    \A r \in Reqs :
        /\ \A i \in Inserts(r, "ai") : effects[r][i].arg.content = Flatten(sent[r])
        /\ Inserts(r, "ai") # {}
               <=> (Done(r) /\ \E j \in 1..Len(sent[r]) : sent[r][j] # <<>>)

\* C17 witness: a stream that sent a marker and no text has ended, and the marker is
\* the saved reply
C17_Witness ==
    \E r \in Reqs :
        /\ Done(r)
        /\ sent[r] # <<>>
        /\ \A j \in 1..Len(yielded[r]) : yielded[r][j].kind # "text"
        /\ \E i \in Inserts(r, "ai") : effects[r][i].arg.content = Flatten(sent[r])

(***************************************************************************)
(* SpecPair: two requests in flight, interleaved at their suspension       *)
(* points, on the same chat or on two chats                                *)
(***************************************************************************)
InitPair ==
    \E chat_id \in {"c1", "c2"} :
        /\ store = InitialRows
        /\ req = <<PlainRequest, Request(GoodAuth, chat_id, <<"o", "k">>, NoFile)>>
        /\ up = <<Upstream("200", Body(<<ErrorNoMessage>>), <<ErrorNoMessage>>),
                  Upstream("200", Body(<<TextObj(<<"z">>)>>), <<TextObj(<<"z">>)>>)>>
        /\ pc = <<"start", "start">>
        /\ http = <<0, 0>>
        /\ user_content = << <<>>, <<>> >>
        /\ image_payload = << <<>>, <<>> >>
        /\ history = << <<>>, <<>> >>
        /\ payload = << <<>>, <<>> >>
        /\ pos = <<0, 0>>
        /\ buffer = << <<>>, <<>> >>
        /\ full_reply = << <<>>, <<>> >>
        /\ sent = << <<>>, <<>> >>
        /\ yielded = << <<>>, <<>> >>
        /\ effects = << <<>>, <<>> >>

SpecPair == InitPair /\ [][NextStream]_vars

\* the chunks a request's own upstream body makes, and the reply they add up to
OwnChunks(r) ==
    LET own == OneChunk(up[r].body) IN [j \in 1..Len(own) |-> own[j].chunk]

OwnReply(r) ==
    [chat_id |-> req[r].chat_id, sender |-> "ai", content |-> Flatten(OwnChunks(r)),
     file_path |-> <<>>]

\* C15: with requests interleaved, what a request sends to its caller and accumulates
\* comes from its own upstream body alone, its buffer holds the unconsumed rest of
\* its own bytes, and every AI Message in the store is the reply of one finished
\* request under that request's chat_id.
C15_RequestIsolation ==
    /\ \A r \in Reqs :
           /\ Len(sent[r]) <= Len(OwnChunks(r))
           /\ sent[r] = SubSeq(OwnChunks(r), 1, Len(sent[r]))
           /\ full_reply[r] = Flatten(sent[r])
           /\ pc[r] = "read" => buffer[r] = rest_loop(decode(Received(r)))
           /\ \A i \in Inserts(r, "ai") : effects[r][i].arg = OwnReply(r)
    /\ \A k \in (Len(InitialRows) + 1)..Len(store) :
           store[k].sender = "ai" => \E r \in Reqs : Done(r) /\ store[k] = OwnReply(r)

\* C15 witness: two requests on one chat overlapped (the second started after the
\* first and finished before it) and each reply is in the store
C15_Witness ==
    /\ \A r \in Reqs : Done(r)
    /\ req[1].chat_id = req[2].chat_id
    /\ Len(store) = Len(InitialRows) + 4
    /\ store[Len(InitialRows) + 1].content = req[1].message
    /\ store[Len(InitialRows) + 2].content = req[2].message
    /\ store[Len(InitialRows) + 3] = OwnReply(2)
    /\ store[Len(InitialRows) + 4] = OwnReply(1)

\* the place in the store of the user Message of a request that has saved it
OwnRow(r) ==
    CHOOSE k \in 1..Len(store) :
        store[k].sender = "user" /\ store[k].content = req[r].message

\* the texts of the history turns of a payload (all but its last element)
HistoryTexts(r) == {payload[r][j].parts[1].v : j \in 1..(Len(payload[r]) - 1)}

Posted(r) == pc[r] \notin {"start", "rejected", "file_read", "streaming"}

\* C18: the payload of a request ends with the current user turn and its history part
\* is made of the rows of the chat stored before the request's own user Message: the
\* current message is in the payload once, as the last element.
C18_HistoryBeforeInsert ==
    \A r \in Reqs :
        Posted(r) =>
            LET before == {k \in 1..(OwnRow(r) - 1) :
                              store[k].chat_id = req[r].chat_id /\ store[k].content # <<>>}
            IN  /\ Last(payload[r]).parts[1].v
                       = SYSTEM_INSTRUCTION \o <<"\n", "\n">> \o req[r].message
                /\ req[r].message \notin HistoryTexts(r)
                /\ Len(payload[r]) = Cardinality(before) + 1
                /\ HistoryTexts(r) = {store[k].content : k \in before}

\* C18 witness: of two requests on one chat, the later one posted the earlier one's
\* user Message in its history and not the earlier one's reply
C18_Witness ==
    /\ \A r \in Reqs : Done(r)
    /\ req[1].chat_id = req[2].chat_id
    /\ req[1].message \in HistoryTexts(2)
    /\ OwnReply(1).content \notin HistoryTexts(2)
    /\ \E k \in 1..Len(store) : store[k] = OwnReply(1)

\* C20: a step changes the message store by appending one row or not at all, and a
\* request has appended at most one user Message and at most one AI Message.
C20_AppendOnly ==
    /\ [](\A r \in Reqs : /\ Cardinality(Inserts(r, "user")) <= 1
                          /\ Cardinality(Inserts(r, "ai")) <= 1)
    /\ [][\/ store' = store
          \/ /\ Len(store') = Len(store) + 1
             /\ SubSeq(store', 1, Len(store)) = store]_vars

\* C20 witness: both requests have finished and the store holds the rows it had and
\* the four rows they appended
C20_Witness ==
    /\ \A r \in Reqs : Done(r)
    /\ Len(store) = Len(InitialRows) + 4
    /\ SubSeq(store, 1, Len(InitialRows)) = InitialRows

(***************************************************************************)
(* SpecLoop: the decode loop over short bodies with objects that yield,    *)
(* an object that raises, and fragments that never parse, under the        *)
(* scheduling of the event loop: a step that can be taken is taken.        *)
(***************************************************************************)
LoopFragments == Fragments \cup {<<>>}

\* an error field that is a string: obj['error'].get raises AttributeError
ErrorString == Obj(<< <<k_error, Str(<<"x">>)>> >>)

LoopBefore == {<<>>, <<ErrorNoMessage>>, <<ErrorString>>, <<TextObj(<<"c">>)>>}

InitLoop ==
    \E fragment \in LoopFragments :
        \E before \in LoopBefore :
            InitRequest(<<>>, PlainRequest,
                        Upstream("200",
                                 MalformedBody(before, fragment, <<ErrorNoMessage>>),
                                 before \o <<ErrorNoMessage>>))

\* a pass of the loop runs without suspension: a request at "loop" takes its pass
\* (weak fairness of DoLoopStep, enabled exactly when a request is at "loop")
LoopRuns ==
    \/ []<><<DoLoopStep>>_vars
    \/ []<>(\A r \in Reqs : pc[r] # "loop")

FairStream ==
    /\ WF_vars(DoEnter)
    /\ WF_vars(DoStartGenerator)
    /\ WF_vars(DoPostOk)
    /\ WF_vars(DoReadChunk)
    /\ WF_vars(DoResume)
    /\ WF_vars(DoReadEnd)
    /\ LoopRuns

SpecLoop == InitLoop /\ [][NextStream]_vars /\ FairStream

AllDone == \A r \in Reqs : Done(r)

\* C19: a pass of the loop over any buffer the program reaches either stops or leaves
\* the buffer strictly shorter, no pass makes the buffer longer, and every request
\* reaches its end state.
C19_LoopTerminates ==
    /\ [](\A r \in Reqs :
              loop_pass(buffer[r]).next = "continue"
                  => Len(loop_pass(buffer[r]).buffer) < Len(buffer[r]))
    /\ [][\A r \in Reqs :
              pc[r] = "loop" =>
                  /\ Len(buffer'[r]) <= Len(buffer[r])
                  /\ pc'[r] \in {"loop", "yield:loop"} => Len(buffer'[r]) < Len(buffer[r])]_vars
    /\ <>AllDone

\* C19 witness: the stream has ended with the loop stopped at a value that cannot be
\* parsed, after it had gone round and yielded
C19_Witness ==
    \E r \in Reqs :
        /\ Done(r)
        /\ pos[r] = Len(up[r].body)
        /\ buffer[r] # <<>>
        /\ yielded[r] # <<>>

====
